---- MODULE Spec2Model ----
(***************************************************************************)
(* Inventory-aware order lifecycle of the NestJS e-commerce backend:       *)
(* OrdersService (create / updateStatus / cancel) on top of                *)
(* ProductsService (findOne / update / remove / updateStock), the          *)
(* cache-fronted user lookup of UsersService (findOne / update / remove)   *)
(* and the in-memory CacheService with per-entry expiry behind it.         *)
(*                                                                         *)
(* Every handler is an async function.  Between two awaits it runs without *)
(* interruption (single-threaded event loop); at each await of a           *)
(* repository call another request may run.  One action of the model is    *)
(* one repository call together with the synchronous code that follows it  *)
(* up to the next await.  The methods of CacheService are async but await  *)
(* nothing: awaiting them resumes the caller in the same turn of the event *)
(* loop, before any other request's callback, so a cache call belongs to   *)
(* the action of the code around it.                                       *)
(*                                                                         *)
(* Persistence is the simple CRUD store the services are written against:  *)
(* findOne reads a row, save writes the whole in-memory entity back (and   *)
(* inserts it when the row is gone), remove deletes the row.               *)
(* Prices are counted in cents, so price * quantity is exact.  The clock   *)
(* counts whole seconds: an entry set at time t with ttl seconds carries   *)
(* expiry t + ttl (Date.now() + ttl * 1000 in milliseconds).               *)
(***************************************************************************)
EXTENDS Integers, Sequences, FiniteSets, TLC

\* ---- bounds of the model ----
MaxStock == 2        \* largest stock value a product is given or restocked to
MaxQuantity == 2     \* largest quantity a create request asks for
MaxOrders == 2       \* number of orders create requests may persist
MaxDelta == 1        \* largest |delta| of a direct stock adjustment
MaxPrice == 2        \* largest unit price (cents)
MaxName == 2         \* number of distinct values a user's profile field takes
MaxTtl == 2          \* largest ttl (seconds) of a direct CacheService.set
MaxNow == 3          \* last second the clock reaches when it advances by seconds
MaxUserTicks == 2    \* number of times the clock advances by a whole lookup TTL
MaxRaceNow == 2      \* last second the clock reaches while several callers use the cache

\* users.service.ts:135  await this.cache.set(`user:${id}`, user, 3600)
UserTtl == 3600

Procs == {1, 2}             \* requests in flight at the same time
ProductIds == {1}
UserIds == {1}              \* persisted users
RequestedUserIds == {1, 2}  \* ids a request may carry (2 does not exist)
Keys == RequestedUserIds    \* cache keys: key i is the string `user:${i}`

Statuses == {"pending", "confirmed", "shipped", "delivered", "cancelled"}

VARIABLES
    users,      \* user table: id -> row
    products,   \* product table: id -> row
    orders,     \* order table: sequence of rows, id = position (generated column)
    op,         \* per request: the handler it runs
    pc,         \* per request: the await it is suspended at
    dto,        \* per request: the arguments of the call
    order,      \* per request: local `order` / `savedOrder` of the OrdersService handler
    product,    \* per request: local `product` of the ProductsService method it is in
    result,     \* per request: handler and outcome of its last finished call
    initStock,  \* history: stock each product was created with
    cache,      \* CacheService.cache: key -> entry {value, expiry}
    now,        \* Date.now(), in seconds
    user,       \* per request: local `user` of the UsersService method it is in
    ret         \* per request: the entity its last finished call returned

vars == <<users, products, orders, op, pc, dto, order, product, result, initStock,
          cache, now, user, ret>>

NoProduct == [exists |-> FALSE, stock |-> 0, price |-> 0]
NoOrder == [id |-> 0, userId |-> 0, productId |-> 0, quantity |-> 0,
            totalPrice |-> 0, status |-> "none"]
NoArgs == [userId |-> 0, productId |-> 0, quantity |-> 0, orderId |-> 0,
           status |-> "none", price |-> 0, name |-> 0,
           key |-> 0, value |-> [exists |-> FALSE, name |-> 0, isDeleted |-> FALSE],
           ttl |-> 0]
\* no user row / null
NoUser == [exists |-> FALSE, name |-> 0, isDeleted |-> FALSE]
\* no entry under a key of the cache Map
NoEntry == [present |-> FALSE, value |-> NoUser, expiry |-> 0]
NoResult == [op |-> "none", kind |-> "none", available |-> 0, requested |-> 0,
             entity |-> "none"]

\* outcomes of a call: a return, or one of the exceptions the handlers throw
\* (a NotFoundException names the entity that was looked up:
\* `User with ID ... not found`, `Product with ID ... not found`, ...)
Ok == [kind |-> "ok", available |-> 0, entity |-> "none"]
NotFound(entity) == [kind |-> "NotFound", available |-> 0, entity |-> entity]
InvalidTransition == [kind |-> "InvalidTransition", available |-> 0, entity |-> "none"]
InsufficientStock(available) ==
    [kind |-> "InsufficientStock", available |-> available, entity |-> "none"]
\* outcomes of CacheService.get, by the return statement taken: the value
\* (line 30), null for no item (line 21), null for an expired item (line 27)
Hit == [kind |-> "hit", available |-> 0, entity |-> "none"]
Absent == [kind |-> "absent", available |-> 0, entity |-> "none"]
ExpiredItem == [kind |-> "expired", available |-> 0, entity |-> "none"]
\* outcome of CacheService.has: the boolean returned
Boolean(b) == [kind |-> IF b THEN "true" ELSE "false", available |-> 0, entity |-> "none"]
\* the repository rejected a save (the promise of repository.save rejects):
\* the handler ends with that error
SaveFailed(entity) == [kind |-> "SaveFailed", available |-> 0, entity |-> entity]

\* ---- pure parts of the handlers ----

\* mutant: the unit price is stored, the quantity is not multiplied in
TotalPriceUnit(price, quantity) == price

\* orders.service.ts:33  product.price * createOrderDto.quantity
TotalPrice(price, quantity) == price * quantity

\* mutant: the delta is subtracted
StockAfterSubtract(stock, quantity) ==
    IF stock - quantity < 0 THEN 0 ELSE stock - quantity

\* mutant: the clamp to zero is missing
StockAfterNoClamp(stock, quantity) == stock + quantity

\* products.service.ts:61-65  product.stock += quantity; if (product.stock < 0) product.stock = 0
StockAfter(stock, quantity) ==
    IF stock + quantity < 0 THEN 0 ELSE stock + quantity

\* mutant: the sufficiency check is off by one
InsufficientOffByOne(stock, quantity) == stock + 1 < quantity

\* orders.service.ts:26  product.stock < createOrderDto.quantity
Insufficient(stock, quantity) == stock < quantity

\* mutant: the delivered check is missing
CancelRejectedCancelledOnly(status) == status = "cancelled"

\* mutant: the already-cancelled check is missing
CancelRejectedDeliveredOnly(status) == status = "delivered"

\* orders.service.ts:93-99  the two terminal-state checks of cancel
CancelRejected(status) == status = "delivered" \/ status = "cancelled"

\* orders.service.ts:36-40  the entity built from the dto, totalPrice and status 'pending'
\* (id 0: not saved yet)
NewOrder(id, d, totalPrice) ==
    [id |-> id, userId |-> d.userId, productId |-> d.productId,
     quantity |-> d.quantity, totalPrice |-> totalPrice, status |-> "pending"]

\* arguments of the updateStock call a request makes:
\* orders.service.ts:45 (create), :102 (cancel), or the direct call
updateStockId(p) ==
    IF op[p] = "cancel" THEN order[p].productId ELSE dto[p].productId

\* mutant: create takes one unit from the stock whatever the quantity ordered
updateStockQuantityCreateOne(p) ==
    CASE op[p] = "create" -> 0 - 1
      [] op[p] = "cancel" -> order[p].quantity
      [] OTHER -> dto[p].quantity

\* mutant: cancel does not restore the order's quantity
updateStockQuantityNoRestore(p) ==
    CASE op[p] = "create" -> 0 - dto[p].quantity
      [] op[p] = "cancel" -> 0
      [] OTHER -> dto[p].quantity

\* mutant: cancel restores twice the order's quantity
updateStockQuantityRestoreTwice(p) ==
    CASE op[p] = "create" -> 0 - dto[p].quantity
      [] op[p] = "cancel" -> 2 * order[p].quantity
      [] OTHER -> dto[p].quantity

updateStockQuantity(p) ==
    CASE op[p] = "create" -> 0 - dto[p].quantity
      [] op[p] = "cancel" -> order[p].quantity
      [] OTHER -> dto[p].quantity

\* ---- CacheService: the Map and what each method makes of it ----

\* cache.service.ts:25, :45  Date.now() > item.expiry
Expired(entry, t) == t > entry.expiry

\* mutant: set leaves an entry that is already there
cacheSetKeepExisting(c, key, value, ttl, t) ==
    IF c[key].present
    THEN c
    ELSE [c EXCEPT ![key] = [present |-> TRUE, value |-> value, expiry |-> t + ttl]]

\* cache.service.ts:12-15  the Map after set(key, value, ttl) at time t
cacheSet(c, key, value, ttl, t) ==
    [c EXCEPT ![key] = [present |-> TRUE, value |-> value, expiry |-> t + ttl]]

\* mutant: get does not look at the expiry
cacheGetNoExpiry(c, key, t) ==
    IF ~c[key].present THEN NoUser ELSE c[key].value

\* cache.service.ts:17-31  the value get(key) returns at time t (NoUser: null)
cacheGet(c, key, t) ==
    IF ~c[key].present
    THEN NoUser
    ELSE IF Expired(c[key], t) THEN NoUser ELSE c[key].value

\* cache.service.ts:41-51  the boolean has(key) returns at time t
cacheHas(c, key, t) ==
    IF ~c[key].present
    THEN FALSE
    ELSE IF Expired(c[key], t) THEN FALSE ELSE TRUE

\* mutant: delete leaves the entry
cacheDeleteNothing(c, key) == c

\* cache.service.ts:33-35
cacheDelete(c, key) == [c EXCEPT ![key] = NoEntry]

\* cache.service.ts:19-30  the return statement get(key) takes at time t
cacheGetOutcome(c, key, t) ==
    IF ~c[key].present
    THEN Absent
    ELSE IF Expired(c[key], t) THEN ExpiredItem ELSE Hit

\* cache.service.ts:25-27  the Map after get(key) at time t: an expired entry is deleted
cacheEvict(c, key, t) ==
    IF c[key].present /\ Expired(c[key], t) THEN [c EXCEPT ![key] = NoEntry] ELSE c

\* mutant: has leaves an expired entry in the Map
cacheHasEvictNothing(c, key, t) == c

\* cache.service.ts:43-47  the Map after has(key) at time t: an expired entry is deleted
cacheHasEvict(c, key, t) ==
    IF ~c[key].present
    THEN c
    ELSE IF Expired(c[key], t) THEN cacheDelete(c, key) ELSE c

\* cache.service.ts:37-39
cacheClear == [k \in Keys |-> NoEntry]

\* cache.service.ts:53-58
getStats(c) ==
    LET keys == {k \in Keys : c[k].present}
    IN  [size |-> Cardinality(keys), keys |-> keys]

\* mutant: the cached value is never used
TruthyNever(entity) == FALSE

\* if (cached) / if (!user): null is the only falsy value an entity lookup yields
Truthy(entity) == entity # NoUser

\* ---- bookkeeping shared by the actions ----

Idle(p) == pc[p] = "idle"

PendingCreates ==
    Cardinality({q \in Procs : op[q] = "create" /\ pc[q] \in {"u_get", "u_query", "u_load", "c_findProduct", "c_save"}})

\* a request is issued: the handler is entered with its arguments
Enter(p, name, first, args) ==
    /\ Idle(p)
    /\ op' = [op EXCEPT ![p] = name]
    /\ pc' = [pc EXCEPT ![p] = first]
    /\ dto' = [dto EXCEPT ![p] = args]
    /\ result' = [result EXCEPT ![p] = NoResult]
    /\ ret' = [ret EXCEPT ![p] = NoUser]
    /\ UNCHANGED <<users, products, orders, order, product, initStock, cache, now, user>>

\* the handler returns or throws: its locals die; the caller is left with the
\* handler it called, the quantity it asked for, the outcome and the entity
\* returned (NoUser when the handler returns none)
FinishWith(p, res, entity) ==
    /\ pc' = [pc EXCEPT ![p] = "idle"]
    /\ result' = [result EXCEPT ![p] =
                    [op |-> op[p], kind |-> res.kind,
                     available |-> res.available, requested |-> dto[p].quantity,
                     entity |-> res.entity]]
    /\ op' = [op EXCEPT ![p] = "none"]
    /\ dto' = [dto EXCEPT ![p] = NoArgs]
    /\ order' = [order EXCEPT ![p] = NoOrder]
    /\ product' = [product EXCEPT ![p] = NoProduct]
    /\ user' = [user EXCEPT ![p] = NoUser]
    /\ ret' = [ret EXCEPT ![p] = entity]

Finish(p, res) == FinishWith(p, res, NoUser)

\* the handler moves on to its next await
Goto(p, next) ==
    /\ pc' = [pc EXCEPT ![p] = next]
    /\ UNCHANGED <<op, dto, result, ret>>

\* ---- UsersService.findOne (called by OrdersService.create, by update and
\* remove of UsersService, and directly) ----

findOneCall(p) ==
    \E u \in RequestedUserIds :
        Enter(p, "findOne", "u_get", [NoArgs EXCEPT !.userId = u])

\* users.service.ts:192  Object.assign(user, updateUserDto, ...)
\* users.service.ts:209  user.isDeleted = true
Merged(entity, name, args) ==
    IF name = "remove_user"
    THEN [entity EXCEPT !.isDeleted = TRUE]
    ELSE [entity EXCEPT !.name = args.name]

\* findOne returns `entity`, leaving the Map c, and its caller runs on to its
\* next await.  The object returned is the object stored under the key
\* (returned from the Map on a hit, stored by cache.set on a miss), so the
\* fields update and remove assign show in the cache entry at once.
findOne_return(p, entity, c) ==
    LET key == dto[p].userId
    IN  CASE op[p] = "create" ->
               /\ cache' = c
               /\ Goto(p, "c_findProduct")
               /\ user' = [user EXCEPT ![p] = NoUser]
               /\ UNCHANGED <<order, product>>
          [] op[p] \in {"update_user", "remove_user"} ->
               LET merged == Merged(entity, op[p], dto[p])
               IN  /\ user' = [user EXCEPT ![p] = merged]
                   /\ cache' = [c EXCEPT ![key].value = merged]
                   /\ Goto(p, "u_save")
                   /\ UNCHANGED <<order, product>>
          [] OTHER ->
               /\ cache' = c
               /\ FinishWith(p, Ok, entity)

\* users.service.ts:121-125  cache.get; a truthy value is returned at once,
\* otherwise the repository is queried
findOne_get(p) ==
    /\ pc[p] = "u_get"
    /\ LET key == dto[p].userId
           cached == cacheGet(cache, key, now)
       IN  IF Truthy(cached)
           THEN findOne_return(p, cached, cacheEvict(cache, key, now))
           ELSE /\ cache' = cacheEvict(cache, key, now)
                /\ Goto(p, "u_query")
                /\ UNCHANGED <<order, product, user>>
    /\ UNCHANGED <<users, products, orders, initStock, now>>

\* users.service.ts:128  the database runs the query: the row it reads is the
\* row findOne will be resumed with (NoUser: null)
findOne_query(p) ==
    /\ pc[p] = "u_query"
    /\ user' = [user EXCEPT ![p] = users[dto[p].userId]]
    /\ Goto(p, "u_load")
    /\ UNCHANGED <<users, products, orders, order, product, initStock, cache, now>>

\* mutant: findOne returns null for a user the repository does not have
findOne_loadNull(p) ==
    /\ pc[p] = "u_load"
    /\ LET key == dto[p].userId
           row == user[p]
       IN  IF ~row.exists
           THEN FinishWith(p, Ok, NoUser) /\ UNCHANGED cache
           ELSE findOne_return(p, row, cacheSet(cache, key, row, UserTtl, now))
    /\ UNCHANGED <<users, products, orders, initStock, now>>

\* mutant: the entity the repository answers with is not checked
findOne_loadUnchecked(p) ==
    /\ pc[p] = "u_load"
    /\ LET key == dto[p].userId
           row == user[p]
       IN  findOne_return(p, row, cacheSet(cache, key, row, UserTtl, now))
    /\ UNCHANGED <<users, products, orders, initStock, now>>

\* users.service.ts:128-137  findOne is resumed with the row read:
\* NotFoundException, or cache.set with the fixed TTL and return
findOne_load(p) ==
    /\ pc[p] = "u_load"
    /\ LET key == dto[p].userId
           row == user[p]
       IN  IF ~row.exists
           THEN Finish(p, NotFound("User")) /\ UNCHANGED cache
           ELSE findOne_return(p, row, cacheSet(cache, key, row, UserTtl, now))
    /\ UNCHANGED <<users, products, orders, initStock, now>>

\* ---- UsersService.update and UsersService.remove (soft delete) ----

update_userCall(p) ==
    \E u \in RequestedUserIds, n \in 1..MaxName :
        Enter(p, "update_user", "u_get", [NoArgs EXCEPT !.userId = u, !.name = n])

remove_userCall(p) ==
    \E u \in RequestedUserIds :
        Enter(p, "remove_user", "u_get", [NoArgs EXCEPT !.userId = u])

\* users.service.ts:194-200, :212-215  the repository has saved the entity:
\* cache.delete, then update returns the saved entity and remove returns nothing
user_save(p) ==
    /\ pc[p] = "u_save"
    /\ users' = [users EXCEPT ![dto[p].userId] = user[p]]
    /\ cache' = cacheDelete(cache, dto[p].userId)
    /\ FinishWith(p, Ok, IF op[p] = "update_user" THEN user[p] ELSE NoUser)
    /\ UNCHANGED <<products, orders, initStock, now>>

\* users.service.ts:194, :212  the repository rejects the save: update or
\* remove ends with the error before its cache.delete; the object it assigned
\* to stays in the Map
user_saveFails(p) ==
    /\ pc[p] = "u_save"
    /\ Finish(p, SaveFailed("User"))
    /\ UNCHANGED <<users, products, orders, initStock, cache, now>>

\* users.service.ts:43  create(createUserDto)
create_userCall(p) ==
    \E n \in 1..MaxName :
        /\ \E u \in RequestedUserIds : ~users[u].exists
        /\ Enter(p, "create_user", "uc_save", [NoArgs EXCEPT !.name = n])

\* users.service.ts:47-60  the repository has saved the new entity under the
\* next free id: cache.set with the fixed TTL, and the saved user is returned
create_user_save(p) ==
    /\ pc[p] = "uc_save"
    /\ \E u \in RequestedUserIds : ~users[u].exists
    /\ LET id == CHOOSE u \in RequestedUserIds :
                    ~users[u].exists /\ \A v \in RequestedUserIds : ~users[v].exists => u <= v
           savedUser == [exists |-> TRUE, name |-> dto[p].name, isDeleted |-> FALSE]
       IN  /\ users' = [users EXCEPT ![id] = savedUser]
           /\ cache' = cacheSet(cache, id, savedUser, UserTtl, now)
           /\ FinishWith(p, Ok, savedUser)
    /\ UNCHANGED <<products, orders, initStock, now>>

\* ---- CacheService called directly ----

\* values a caller stores (cache.service.ts:12  value: any): entities, or null
CacheValues == [exists : {TRUE}, name : 1..MaxName, isDeleted : {FALSE}] \cup {NoUser}

setCall(p) ==
    \E k \in Keys, v \in CacheValues, ttl \in 1..MaxTtl :
        Enter(p, "set", "k_set", [NoArgs EXCEPT !.key = k, !.value = v, !.ttl = ttl])

\* mutant: a set that finds another caller's call pending loses its write
setLost(p) ==
    /\ pc[p] = "k_set"
    /\ cache' = IF \E q \in Procs \ {p} : ~Idle(q)
              THEN cache
              ELSE cacheSet(cache, dto[p].key, dto[p].value, dto[p].ttl, now)
    /\ Finish(p, Ok)
    /\ UNCHANGED <<users, products, orders, initStock, now>>

set(p) ==
    /\ pc[p] = "k_set"
    /\ cache' = cacheSet(cache, dto[p].key, dto[p].value, dto[p].ttl, now)
    /\ Finish(p, Ok)
    /\ UNCHANGED <<users, products, orders, initStock, now>>

getCall(p) ==
    \E k \in Keys : Enter(p, "get", "k_get", [NoArgs EXCEPT !.key = k])

get(p) ==
    /\ pc[p] = "k_get"
    /\ LET key == dto[p].key
       IN  /\ cache' = cacheEvict(cache, key, now)
           /\ FinishWith(p, cacheGetOutcome(cache, key, now), cacheGet(cache, key, now))
    /\ UNCHANGED <<users, products, orders, initStock, now>>

deleteCall(p) ==
    \E k \in Keys : Enter(p, "delete", "k_delete", [NoArgs EXCEPT !.key = k])

delete(p) ==
    /\ pc[p] = "k_delete"
    /\ cache' = cacheDelete(cache, dto[p].key)
    /\ Finish(p, Ok)
    /\ UNCHANGED <<users, products, orders, initStock, now>>

clearCall(p) == Enter(p, "clear", "k_clear", NoArgs)

clear(p) ==
    /\ pc[p] = "k_clear"
    /\ cache' = cacheClear
    /\ Finish(p, Ok)
    /\ UNCHANGED <<users, products, orders, initStock, now>>

hasCall(p) ==
    \E k \in Keys : Enter(p, "has", "k_has", [NoArgs EXCEPT !.key = k])

has(p) ==
    /\ pc[p] = "k_has"
    /\ cache' = cacheHasEvict(cache, dto[p].key, now)
    /\ Finish(p, Boolean(cacheHas(cache, dto[p].key, now)))
    /\ UNCHANGED <<users, products, orders, initStock, now>>

\* ---- the clock ----

Tick(dt, limit) ==
    /\ now + dt <= limit
    /\ now' = now + dt
    /\ UNCHANGED <<users, products, orders, op, pc, dto, order, product, result,
                   initStock, cache, user, ret>>

\* ---- OrdersService.create ----

createCall(p) ==
    /\ Len(orders) + PendingCreates < MaxOrders
    /\ \E u \in RequestedUserIds, i \in ProductIds, q \in 1..MaxQuantity :
          Enter(p, "create", "u_get",
                [NoArgs EXCEPT !.userId = u, !.productId = i, !.quantity = q])

\* mutant: the product lookup serves the copy taken when the product was created
create_findProductStale(p) ==
    /\ pc[p] = "c_findProduct"
    /\ LET row == [products[dto[p].productId] EXCEPT !.stock = initStock[dto[p].productId]]
       IN  IF ~row.exists
           THEN Finish(p, NotFound("Product"))
           ELSE IF Insufficient(row.stock, dto[p].quantity)
                THEN Finish(p, InsufficientStock(row.stock))
                ELSE /\ order' = [order EXCEPT ![p] =
                                  NewOrder(0, dto[p], TotalPrice(row.price, dto[p].quantity))]
                     /\ Goto(p, "c_save")
                     /\ UNCHANGED <<product, user>>
    /\ UNCHANGED <<users, products, orders, initStock, cache, now>>

create_findProduct(p) ==
    /\ pc[p] = "c_findProduct"
    /\ LET row == products[dto[p].productId]
       IN  IF ~row.exists
           THEN Finish(p, NotFound("Product"))
           ELSE IF Insufficient(row.stock, dto[p].quantity)
                THEN Finish(p, InsufficientStock(row.stock))
                ELSE /\ order' = [order EXCEPT ![p] =
                                  NewOrder(0, dto[p], TotalPrice(row.price, dto[p].quantity))]
                     /\ Goto(p, "c_save")
                     /\ UNCHANGED <<product, user>>
    /\ UNCHANGED <<users, products, orders, initStock, cache, now>>

create_save(p) ==
    /\ pc[p] = "c_save"
    /\ LET saved == [order[p] EXCEPT !.id = Len(orders) + 1]
       IN  /\ orders' = Append(orders, saved)
           /\ order' = [order EXCEPT ![p] = saved]
    /\ Goto(p, "us_findOne")
    /\ UNCHANGED <<users, products, product, user, initStock, cache, now>>

\* ---- ProductsService.updateStock (called by create, by cancel, and directly) ----

updateStockCall(p) ==
    \E i \in ProductIds, d \in (0 - MaxDelta)..MaxDelta :
        Enter(p, "updateStock", "us_findOne",
              [NoArgs EXCEPT !.productId = i, !.quantity = d])

updateStock_findOne(p) ==
    /\ pc[p] = "us_findOne"
    /\ LET row == products[updateStockId(p)]
       IN  IF ~row.exists
           THEN Finish(p, NotFound("Product"))
           ELSE /\ StockAfter(row.stock, updateStockQuantity(p)) <= MaxStock
                /\ product' = [product EXCEPT ![p] = row]
                /\ Goto(p, "us_save")
                /\ UNCHANGED <<order, user>>
    /\ UNCHANGED <<users, products, orders, initStock, cache, now>>

updateStock_save(p) ==
    /\ pc[p] = "us_save"
    /\ products' = [products EXCEPT ![updateStockId(p)] =
                      [product[p] EXCEPT
                          !.stock = StockAfter(product[p].stock, updateStockQuantity(p))]]
    /\ IF op[p] = "cancel"
       THEN /\ Goto(p, "x_save")
            /\ product' = [product EXCEPT ![p] = NoProduct]
            /\ UNCHANGED <<order, user>>
       ELSE Finish(p, Ok)
    /\ UNCHANGED <<users, orders, initStock, cache, now>>

\* ---- OrdersService.cancel ----

cancelCall(p) ==
    \E o \in 1..MaxOrders :
        Enter(p, "cancel", "x_findOne", [NoArgs EXCEPT !.orderId = o])

cancel_findOne(p) ==
    /\ pc[p] = "x_findOne"
    /\ IF dto[p].orderId > Len(orders)
       THEN Finish(p, NotFound("Order"))
       ELSE IF CancelRejected(orders[dto[p].orderId].status)
            THEN Finish(p, InvalidTransition)
            ELSE /\ order' = [order EXCEPT ![p] = orders[dto[p].orderId]]
                 /\ Goto(p, "us_findOne")
                 /\ UNCHANGED <<product, user>>
    /\ UNCHANGED <<users, products, orders, initStock, cache, now>>

\* mutant: the save of the cancelled order cancels every order
cancel_saveEveryOrder(p) ==
    /\ pc[p] = "x_save"
    /\ orders' = [i \in 1..Len(orders) |-> [orders[i] EXCEPT !.status = "cancelled"]]
    /\ Finish(p, Ok)
    /\ UNCHANGED <<users, products, initStock, cache, now>>

cancel_save(p) ==
    /\ pc[p] = "x_save"
    /\ orders' = [orders EXCEPT ![order[p].id] = [order[p] EXCEPT !.status = "cancelled"]]
    /\ Finish(p, Ok)
    /\ UNCHANGED <<users, products, initStock, cache, now>>

\* orders.service.ts:105  the repository rejects the save of the cancelled
\* order: cancel ends with the error, the stock already restored (line 102)
cancel_saveFails(p) ==
    /\ pc[p] = "x_save"
    /\ Finish(p, SaveFailed("Order"))
    /\ UNCHANGED <<users, products, orders, initStock, cache, now>>

\* ---- OrdersService.updateStatus ----

updateStatusCall(p) ==
    \E o \in 1..MaxOrders, s \in Statuses :
        Enter(p, "updateStatus", "s_findOne",
              [NoArgs EXCEPT !.orderId = o, !.status = s])

\* mutant: an order in a terminal status is not updated
updateStatus_findOneTerminalKept(p) ==
    /\ pc[p] = "s_findOne"
    /\ IF dto[p].orderId > Len(orders)
       THEN Finish(p, NotFound("Order"))
       ELSE IF orders[dto[p].orderId].status \in {"delivered", "cancelled"}
            THEN Finish(p, InvalidTransition)
            ELSE /\ order' = [order EXCEPT ![p] =
                                [orders[dto[p].orderId] EXCEPT !.status = dto[p].status]]
                 /\ Goto(p, "s_save")
                 /\ UNCHANGED <<product, user>>
    /\ UNCHANGED <<users, products, orders, initStock, cache, now>>

updateStatus_findOne(p) ==
    /\ pc[p] = "s_findOne"
    /\ IF dto[p].orderId > Len(orders)
       THEN Finish(p, NotFound("Order"))
       ELSE /\ order' = [order EXCEPT ![p] =
                           [orders[dto[p].orderId] EXCEPT !.status = dto[p].status]]
            /\ Goto(p, "s_save")
            /\ UNCHANGED <<product, user>>
    /\ UNCHANGED <<users, products, orders, initStock, cache, now>>

updateStatus_save(p) ==
    /\ pc[p] = "s_save"
    /\ orders' = [orders EXCEPT ![order[p].id] = order[p]]
    /\ Finish(p, Ok)
    /\ UNCHANGED <<users, products, initStock, cache, now>>

\* ---- ProductsService.update (price patch) and ProductsService.remove ----

updateCall(p) ==
    \E i \in ProductIds, c \in 1..MaxPrice :
        Enter(p, "update", "p_findOne", [NoArgs EXCEPT !.productId = i, !.price = c])

update_findOne(p) ==
    /\ pc[p] = "p_findOne"
    /\ LET row == products[dto[p].productId]
       IN  IF ~row.exists
           THEN Finish(p, NotFound("Product"))
           ELSE /\ product' = [product EXCEPT ![p] = [row EXCEPT !.price = dto[p].price]]
                /\ Goto(p, "p_save")
                /\ UNCHANGED <<order, user>>
    /\ UNCHANGED <<users, products, orders, initStock, cache, now>>

update_save(p) ==
    /\ pc[p] = "p_save"
    /\ products' = [products EXCEPT ![dto[p].productId] = product[p]]
    /\ Finish(p, Ok)
    /\ UNCHANGED <<users, orders, initStock, cache, now>>

removeCall(p) ==
    \E i \in ProductIds :
        Enter(p, "remove", "r_findOne", [NoArgs EXCEPT !.productId = i])

remove_findOne(p) ==
    /\ pc[p] = "r_findOne"
    /\ IF ~products[dto[p].productId].exists
       THEN Finish(p, NotFound("Product"))
       ELSE Goto(p, "r_remove") /\ UNCHANGED <<order, product, user>>
    /\ UNCHANGED <<users, products, orders, initStock, cache, now>>

remove_remove(p) ==
    /\ pc[p] = "r_remove"
    /\ products' = [products EXCEPT ![dto[p].productId] = NoProduct]
    /\ Finish(p, Ok)
    /\ UNCHANGED <<users, orders, initStock, cache, now>>

\* ---- the system ----

\* a user as UsersService.create persists it
NewUser == [exists |-> TRUE, name |-> 1, isDeleted |-> FALSE]

UserTable == [u \in RequestedUserIds |-> IF u \in UserIds THEN NewUser ELSE NoUser]

\* users.service.ts:54-57  the Map as UsersService.create leaves it at time 0:
\* every saved user is cached with the fixed TTL
CacheAfterCreate ==
    [k \in Keys |-> IF k \in UserIds
                     THEN [present |-> TRUE, value |-> NewUser, expiry |-> UserTtl]
                     ELSE NoEntry]

\* tables as left by user creation and ProductsService.create
\* (create-product.dto.ts: stock >= 0, price >= 0.01), no order yet
Tables(stocks, prices) ==
    /\ users = UserTable
    /\ products \in [ProductIds -> [exists : {TRUE}, stock : stocks, price : prices]]
    /\ orders = << >>
    /\ initStock = [i \in ProductIds |-> products[i].stock]

\* the users were persisted by UsersService.create at time 0: all are cached
UsersCached ==
    /\ cache = CacheAfterCreate
    /\ now = 0

\* the users were persisted by create (cached) or by createBatch
\* (users.service.ts:66-78, which does not touch the cache)
UsersCachedOrNot ==
    /\ cache \in {cacheClear, CacheAfterCreate}
    /\ now = 0

\* no request in flight
Quiet ==
    /\ op = [p \in Procs |-> "none"]
    /\ pc = [p \in Procs |-> "idle"]
    /\ dto = [p \in Procs |-> NoArgs]
    /\ order = [p \in Procs |-> NoOrder]
    /\ product = [p \in Procs |-> NoProduct]
    /\ result = [p \in Procs |-> NoResult]
    /\ user = [p \in Procs |-> NoUser]
    /\ ret = [p \in Procs |-> NoUser]

\* requests in flight: handler names[p] entered with arguments args[p]
InFlight(names, firsts, args) ==
    /\ op = names
    /\ pc = firsts
    /\ dto = args
    /\ order = [p \in Procs |-> NoOrder]
    /\ product = [p \in Procs |-> NoProduct]
    /\ result = [p \in Procs |-> NoResult]
    /\ user = [p \in Procs |-> NoUser]
    /\ ret = [p \in Procs |-> NoUser]

\* a product stocked to MaxStock at the lowest price; every other stock and
\* price is reached from it by updateStock and update
Init == Tables({MaxStock}, {1}) /\ UsersCached /\ Quiet

\* a product created with any stock and price
InitAny == Tables(0..MaxStock, 1..MaxPrice) /\ UsersCached /\ Quiet


AllIdle == \A p \in Procs : Idle(p)

findOneSteps(p) ==
    \/ findOne_get(p) \/ findOne_query(p) \/ findOne_load(p)

createSteps(p) ==
    \/ findOneSteps(p) \/ create_findProduct(p) \/ create_save(p)

updateStockSteps(p) ==
    \/ updateStock_findOne(p) \/ updateStock_save(p)

cancelSteps(p) ==
    \/ cancel_findOne(p) \/ cancel_save(p)

updateStatusSteps(p) ==
    \/ updateStatus_findOne(p) \/ updateStatus_save(p)

productSteps(p) ==
    \/ updateCall(p) \/ update_findOne(p) \/ update_save(p)
    \/ removeCall(p) \/ remove_findOne(p) \/ remove_remove(p)

\* the order lifecycle and the stock ledger
OrderStep(p) ==
    \/ createCall(p) \/ createSteps(p)
    \/ cancelCall(p) \/ cancelSteps(p)
    \/ updateStatusCall(p) \/ updateStatusSteps(p)
    \/ updateStockCall(p) \/ updateStockSteps(p)

\* Spec: requests to the order lifecycle and the stock ledger interleave at their awaits
Next == \E p \in Procs : OrderStep(p)

Spec == Init /\ [][Next]_vars

\* SpecSeq: all handlers, called one after the other by one client (a call
\* is issued only when the previous one has returned)
Client == 1

NextSeq == OrderStep(Client) \/ productSteps(Client)

SpecSeq == InitAny /\ [][NextSeq]_vars

\* SpecOrderSeq: the order lifecycle and the stock ledger, called one after
\* the other by one client
NextOrderSeq == OrderStep(Client)

SpecOrderSeq == InitAny /\ [][NextOrderSeq]_vars

\* SpecLifecycle: create, cancel and updateStatus only (the stock changes
\* through orders alone), called one after the other by one client
NextLifecycle ==
    \/ createCall(Client) \/ createSteps(Client)
    \/ cancelCall(Client) \/ cancelSteps(Client)
    \/ updateStatusCall(Client) \/ updateStatusSteps(Client)
    \/ updateStockSteps(Client)

SpecLifecycle == InitAny /\ [][NextLifecycle]_vars

\* SpecCreateCancel: create and cancel only, called one after the other by
\* one client
NextCreateCancel ==
    \/ createCall(Client) \/ createSteps(Client)
    \/ cancelCall(Client) \/ cancelSteps(Client)
    \/ updateStockSteps(Client)

SpecCreateCancel == InitAny /\ [][NextCreateCancel]_vars

\* SpecCancelFails: create and cancel called one after the other by one
\* client, the save of a cancelled order succeeding or not
NextCancelFails == NextCreateCancel \/ cancel_saveFails(Client)

SpecCancelFails == InitAny /\ [][NextCancelFails]_vars

\* ---- scenarios: requests already issued, run to completion ----

Both(x) == [p \in Procs |-> x]

Only(p, x, none) == [q \in Procs |-> IF q = p THEN x ELSE none]

\* SpecRoundTrip: one client creates an order and then only ever cancels
InitRoundTrip ==
    /\ Tables(0..MaxStock, 1..MaxPrice)
    /\ UsersCachedOrNot
    /\ \E u \in UserIds, i \in ProductIds, q \in 1..MaxQuantity :
          InFlight(Only(Client, "create", "none"), Only(Client, "u_get", "idle"),
                   Only(Client, [NoArgs EXCEPT !.userId = u, !.productId = i, !.quantity = q],
                        NoArgs))

NextRoundTrip ==
    \/ createSteps(Client) \/ updateStockSteps(Client)
    \/ cancelCall(Client) \/ cancelSteps(Client)

SpecRoundTrip == InitRoundTrip /\ [][NextRoundTrip]_vars

\* SpecCreateRace: two concurrent creates, each asking for the whole stock
InitCreateRace ==
    /\ Tables(1..MaxStock, 1..MaxPrice)
    /\ UsersCachedOrNot
    /\ \E u \in UserIds, i \in ProductIds :
          InFlight(Both("create"), Both("u_get"),
                   Both([NoArgs EXCEPT !.userId = u, !.productId = i,
                                       !.quantity = products[i].stock]))

NextCreateRace == \E p \in Procs : createSteps(p) \/ updateStockSteps(p)

SpecCreateRace == InitCreateRace /\ [][NextCreateRace]_vars

\* SpecAdjustRace: two concurrent direct updateStock calls on one product
InitAdjustRace ==
    /\ Tables(0..MaxStock, 1..MaxPrice)
    /\ UsersCached
    /\ \E i \in ProductIds :
          \E ds \in [Procs -> (0 - MaxDelta)..MaxDelta] :
              InFlight(Both("updateStock"), Both("us_findOne"),
                       [p \in Procs |-> [NoArgs EXCEPT !.productId = i, !.quantity = ds[p]]])

NextAdjustRace == \E p \in Procs : updateStockSteps(p)

SpecAdjustRace == InitAdjustRace /\ [][NextAdjustRace]_vars

\* SpecCancelRace: an order was created (stock went from s + q to s) and is not
\* in a terminal status; two concurrent cancels of it
InitCancelRace ==
    /\ users = UserTable
    /\ UsersCached
    /\ \E u \in UserIds, i \in ProductIds, q \in 1..MaxQuantity, c \in 1..MaxPrice,
          st \in {"pending", "confirmed", "shipped"} :
          \E s \in 0..(MaxStock - q) :
              /\ products = [j \in ProductIds |-> [exists |-> TRUE, stock |-> s, price |-> c]]
              /\ initStock = [j \in ProductIds |-> s + q]
              /\ orders = << [NewOrder(1, [userId |-> u, productId |-> i, quantity |-> q],
                                       TotalPrice(c, q)) EXCEPT !.status = st] >>
    /\ InFlight(Both("cancel"), Both("x_findOne"), Both([NoArgs EXCEPT !.orderId = 1]))

NextCancelRace == \E p \in Procs : cancelSteps(p) \/ updateStockSteps(p)

SpecCancelRace == InitCancelRace /\ [][NextCancelRace]_vars

\* SpecCreateRemove: a create and a remove of its product, concurrently
InitCreateRemove ==
    /\ Tables(0..MaxStock, 1..MaxPrice)
    /\ UsersCachedOrNot
    /\ \E u \in UserIds, i \in ProductIds, q \in 1..MaxQuantity :
          InFlight([p \in Procs |-> IF p = Client THEN "create" ELSE "remove"],
                   [p \in Procs |-> IF p = Client THEN "u_get" ELSE "r_findOne"],
                   [p \in Procs |-> IF p = Client
                                     THEN [NoArgs EXCEPT !.userId = u, !.productId = i,
                                                         !.quantity = q]
                                     ELSE [NoArgs EXCEPT !.productId = i]])

NextCreateRemove ==
    \E p \in Procs :
        createSteps(p) \/ updateStockSteps(p) \/ remove_findOne(p) \/ remove_remove(p)

SpecCreateRemove == InitCreateRemove /\ [][NextCreateRemove]_vars

\* SpecCreateLookup: two creates, each for an existing or a missing user, of a
\* product that exists or was removed
InitCreateLookup ==
    /\ users = UserTable
    /\ UsersCachedOrNot
    /\ products \in [ProductIds -> {NoProduct} \cup
                        [exists : {TRUE}, stock : 0..MaxStock, price : 1..MaxPrice]]
    /\ orders = << >>
    /\ initStock = [i \in ProductIds |-> products[i].stock]
    /\ \E i \in ProductIds :
          \E us \in [Procs -> RequestedUserIds], qs \in [Procs -> 1..MaxQuantity] :
              InFlight(Both("create"), Both("u_get"),
                       [p \in Procs |-> [NoArgs EXCEPT !.userId = us[p], !.productId = i,
                                                        !.quantity = qs[p]]])

NextCreateLookup == \E p \in Procs : createSteps(p) \/ updateStockSteps(p)

SpecCreateLookup == InitCreateLookup /\ [][NextCreateLookup]_vars

\* SpecCache: one client calls the CacheService while the clock advances
\* second by second
InitCache ==
    /\ users = UserTable
    /\ products = [i \in ProductIds |-> NoProduct]
    /\ orders = << >>
    /\ initStock = [i \in ProductIds |-> 0]
    /\ cache = cacheClear
    /\ now = 0
    /\ Quiet

cacheSteps(p) ==
    \/ setCall(p) \/ set(p)
    \/ getCall(p) \/ get(p)
    \/ deleteCall(p) \/ delete(p)
    \/ clearCall(p) \/ clear(p)
    \/ hasCall(p) \/ has(p)

NextCache == cacheSteps(Client) \/ Tick(1, MaxNow)

SpecCache == InitCache /\ [][NextCache]_vars

\* several callers of the CacheService at once: each method body runs without
\* an await (cache.service.ts:12-51), so each call is one step
NextCacheRace == (\E p \in Procs : cacheSteps(p)) \/ Tick(1, MaxRaceNow)

SpecCacheRace == InitCache /\ [][NextCacheRace]_vars

\* SpecUsers: one client calls findOne, update and remove of UsersService one
\* after the other while the clock advances by whole lookup TTLs; the user was
\* persisted by create (cached) or by createBatch (not cached)
InitUsers ==
    /\ users = UserTable
    /\ products = [i \in ProductIds |-> NoProduct]
    /\ orders = << >>
    /\ initStock = [i \in ProductIds |-> 0]
    /\ UsersCachedOrNot
    /\ Quiet

userSteps(p) ==
    \/ findOneCall(p) \/ update_userCall(p) \/ remove_userCall(p)
    \/ findOneSteps(p) \/ user_save(p)

NextUsers == userSteps(Client) \/ Tick(UserTtl, MaxUserTicks * UserTtl)

SpecUsers == InitUsers /\ [][NextUsers]_vars

\* UsersService with its writes, create included, on an empty cache: the
\* users there already were persisted by createBatch
InitUserWrites ==
    /\ users = UserTable
    /\ products = [i \in ProductIds |-> NoProduct]
    /\ orders = << >>
    /\ initStock = [i \in ProductIds |-> 0]
    /\ cache = cacheClear
    /\ now = 0
    /\ Quiet

NextUserWrites ==
    \/ userSteps(Client)
    \/ create_userCall(Client) \/ create_user_save(Client)
    \/ Tick(UserTtl, MaxUserTicks * UserTtl)

SpecUserWrites == InitUserWrites /\ [][NextUserWrites]_vars

\* SpecUserSaveFails: UsersService called by one client, the save of update
\* and remove succeeding or not
NextUserSaveFails == NextUsers \/ user_saveFails(Client)

SpecUserSaveFails == InitUsers /\ [][NextUserSaveFails]_vars

\* SpecUserRace: a findOne and, concurrently, an update or a remove of the
\* same user, who exists or not; the user was looked up before (cached) or not
InitUserRace ==
    /\ users = UserTable
    /\ products = [i \in ProductIds |-> NoProduct]
    /\ orders = << >>
    /\ initStock = [i \in ProductIds |-> 0]
    /\ UsersCachedOrNot
    /\ \E u \in RequestedUserIds, w \in {"update_user", "remove_user"}, n \in 1..MaxName :
          InFlight([p \in Procs |-> IF p = Client THEN "findOne" ELSE w],
                   Both("u_get"),
                   [p \in Procs |-> IF p = Client
                                     THEN [NoArgs EXCEPT !.userId = u]
                                     ELSE [NoArgs EXCEPT !.userId = u, !.name = n]])

NextUserRace == \E p \in Procs : findOneSteps(p) \/ user_save(p)

SpecUserRace == InitUserRace /\ [][NextUserRace]_vars

\* ======================= claims =======================

Terminal(status) == status \in {"delivered", "cancelled"}

Returned(p, name, kind) ==
    pc[p] = "idle" /\ result[p].op = name /\ result[p].kind = kind

\* C1 (SpecCreateRace): of two concurrent creates that each ask for the whole
\* stock of the product, exactly one succeeds and the other fails with
\* InsufficientStock, whatever the interleaving.
C1_ExactlyOneCreateSucceeds ==
    AllIdle =>
        \E p, q \in Procs :
            /\ p # q
            /\ Returned(p, "create", "ok")
            /\ Returned(q, "create", "InsufficientStock")

\* C2 (Spec): in every reachable state of interleaved create, cancel,
\* updateStatus and updateStock calls, every persisted stock is >= 0.
C2_StockNonNegative ==
    \A i \in ProductIds : products[i].stock >= 0

\* C2 witness: an updateStock call with a negative delta has returned and left
\* the stock at 0 while two orders that together exceed the initial stock are
\* persisted (the decrement was clamped).
C2_Witness ==
    /\ \E p \in Procs : Returned(p, "updateStock", "ok") /\ result[p].requested < 0
    /\ \E i \in ProductIds : products[i].stock = 0
    /\ Len(orders) = 2
    /\ orders[1].quantity + orders[2].quantity > MaxStock

\* C3 (SpecRoundTrip): a create of quantity Q on a product with stock S that
\* returns successfully leaves a pending order and stock S - Q; a cancel of that
\* order that returns successfully leaves it cancelled and the stock at S.
C3_RoundTrip ==
    \A p \in Procs :
        /\ Returned(p, "create", "ok") =>
              /\ Len(orders) = 1
              /\ orders[1].status = "pending"
              /\ orders[1].quantity = result[p].requested
              /\ products[orders[1].productId].stock =
                     initStock[orders[1].productId] - result[p].requested
        /\ Returned(p, "cancel", "ok") =>
              /\ Len(orders) = 1
              /\ orders[1].status = "cancelled"
              /\ products[orders[1].productId].stock = initStock[orders[1].productId]

\* C3 witness: the cancel of an order of at least one unit has returned
\* successfully.
C3_Witness ==
    \E p \in Procs :
        /\ Returned(p, "cancel", "ok")
        /\ Len(orders) = 1
        /\ orders[1].quantity >= 1
        /\ orders[1].status = "cancelled"

\* C4 (SpecRoundTrip): a cancel of an order that is already cancelled fails
\* with InvalidTransition in its first step and changes neither the products
\* nor the orders; the stock stays at the value the first cancel restored.
C4_SecondCancelStep ==
    \A p \in Procs :
        (/\ pc[p] = "x_findOne"
         /\ pc'[p] # "x_findOne"
         /\ dto[p].orderId <= Len(orders)
         /\ orders[dto[p].orderId].status = "cancelled")
        => /\ pc'[p] = "idle"
           /\ result'[p].op = "cancel"
           /\ result'[p].kind = "InvalidTransition"
           /\ products' = products
           /\ orders' = orders

C4_OneRestoration ==
    \A p \in Procs :
        Returned(p, "cancel", "InvalidTransition") =>
            /\ Len(orders) = 1
            /\ orders[1].status = "cancelled"
            /\ products[orders[1].productId].stock = initStock[orders[1].productId]

C4_CancelTwice == [][C4_SecondCancelStep]_vars /\ []C4_OneRestoration

\* C4 witness: a second cancel has returned InvalidTransition.
C4_Witness ==
    \E p \in Procs :
        /\ Returned(p, "cancel", "InvalidTransition")
        /\ Len(orders) = 1
        /\ orders[1].status = "cancelled"

\* C5 (SpecSeq): once an order is delivered or cancelled, no later call
\* changes its status.
C5_TerminalStatusKept ==
    [][\A o \in 1..Len(orders) :
          Terminal(orders[o].status) => orders'[o].status = orders[o].status]_vars

\* C6 (SpecCreateRemove): whenever an order is persisted, the create that
\* saved it has returned successfully, that is, its stock decrement is committed.
C6_NoPartialOrder ==
    Len(orders) > 0 => \E p \in Procs : Returned(p, "create", "ok")

\* C7 (Spec): a create whose quantity exceeds the stock it reads fails at that
\* step with InsufficientStock carrying the stock read and the quantity asked
\* for, and changes neither the orders nor the products.
C7_InsufficientStockStep ==
    \A p \in Procs :
        (/\ pc[p] = "c_findProduct"
         /\ pc'[p] # "c_findProduct"
         /\ products[dto[p].productId].exists
         /\ dto[p].quantity > products[dto[p].productId].stock)
        => /\ pc'[p] = "idle"
           /\ result'[p] = [op |-> "create", kind |-> "InsufficientStock",
                            available |-> products[dto[p].productId].stock,
                            requested |-> dto[p].quantity, entity |-> "none"]
           /\ orders' = orders
           /\ products' = products

C7_InsufficientStock == [][C7_InsufficientStockStep]_vars

\* C7 witness: a create has returned InsufficientStock with requested > available.
C7_Witness ==
    \E p \in Procs :
        /\ Returned(p, "create", "InsufficientStock")
        /\ result[p].requested > result[p].available

\* C8 (SpecSeq): the order a create builds carries the price it read times the
\* quantity, create persists exactly that, and no step of any handler changes
\* the totalPrice or the quantity of a persisted order.
C8_PriceSnapshotStep ==
    /\ \A o \in 1..Len(orders) :
          /\ orders'[o].totalPrice = orders[o].totalPrice
          /\ orders'[o].quantity = orders[o].quantity
    /\ \A p \in Procs :
          /\ (pc[p] = "c_findProduct" /\ pc'[p] = "c_save") =>
                order'[p].totalPrice =
                    products[dto[p].productId].price * dto[p].quantity
          /\ (pc[p] = "c_save" /\ pc'[p] # "c_save") =>
                /\ Len(orders') = Len(orders) + 1
                /\ orders'[Len(orders')].totalPrice = order[p].totalPrice
                /\ orders'[Len(orders')].quantity = dto[p].quantity

C8_PriceSnapshot == [][C8_PriceSnapshotStep]_vars

\* C8 witness: a persisted order whose totalPrice differs from the product's
\* current price times its quantity (the price changed after the order).
C8_Witness ==
    \E o \in 1..Len(orders) :
        /\ products[orders[o].productId].exists
        /\ orders[o].totalPrice # products[orders[o].productId].price * orders[o].quantity
        /\ orders[o].status = "cancelled"

\* C9 (SpecAdjustRace): two concurrent updateStock calls with deltas d1 and d2,
\* neither clamped, leave the stock at the initial stock + d1 + d2.
C9_AdjustsAddUp ==
    \A i \in ProductIds :
        LET d1 == result[1].requested
            d2 == result[2].requested
        IN  (/\ AllIdle
             /\ \A p \in Procs : Returned(p, "updateStock", "ok")
             /\ initStock[i] + d1 >= 0
             /\ initStock[i] + d2 >= 0
             /\ initStock[i] + d1 + d2 >= 0)
            => products[i].stock = initStock[i] + d1 + d2

\* C10 (SpecCancelRace): two concurrent cancels of one non-terminal order
\* restore its quantity exactly once, and at most one of them succeeds.
C10_CancelTakesEffectOnce ==
    AllIdle =>
        /\ products[orders[1].productId].stock = initStock[orders[1].productId]
        /\ ~ \A p \in Procs : Returned(p, "cancel", "ok")

\* C11 (SpecOrderSeq): a cancel of an order whose status is delivered fails
\* with InvalidTransition in its first step; the order keeps the status
\* delivered and neither the orders nor any product's stock change.
C11_CancelDeliveredStep ==
    \A p \in Procs :
        (/\ pc[p] = "x_findOne"
         /\ pc'[p] # "x_findOne"
         /\ dto[p].orderId <= Len(orders)
         /\ orders[dto[p].orderId].status = "delivered")
        => /\ pc'[p] = "idle"
           /\ result'[p].op = "cancel"
           /\ result'[p].kind = "InvalidTransition"
           /\ orders'[dto[p].orderId].status = "delivered"
           /\ orders' = orders
           /\ \A i \in ProductIds : products'[i].stock = products[i].stock

C11_CancelDelivered == [][C11_CancelDeliveredStep]_vars

\* C11 witness: a cancel has returned InvalidTransition while an order is
\* delivered and no order is cancelled (the order it refused was delivered).
C11_Witness ==
    /\ Returned(Client, "cancel", "InvalidTransition")
    /\ \E o \in 1..Len(orders) : orders[o].status = "delivered"
    /\ \A o \in 1..Len(orders) : orders[o].status # "cancelled"

\* C12 (SpecOrderSeq): a create that runs alone and succeeds appends exactly one
\* order, with status pending and totalPrice = price * quantity, and its last
\* step takes exactly the quantity from the stock, which no earlier step of
\* it changed; it returns that order's success.
C12_CreateStep ==
    \A p \in Procs :
        op[p] = "create" =>
            LET i == dto[p].productId
                q == dto[p].quantity
            IN  /\ pc[p] # "us_save" => products' = products
                /\ pc[p] # "c_save" => orders' = orders
                /\ pc[p] = "c_save" =>
                       /\ Len(orders') = Len(orders) + 1
                       /\ orders'[Len(orders')] =
                              [id |-> Len(orders) + 1, userId |-> dto[p].userId,
                               productId |-> i, quantity |-> q,
                               totalPrice |-> products[i].price * q,
                               status |-> "pending"]
                       /\ q <= products[i].stock
                /\ (pc[p] = "us_save" /\ pc'[p] # "us_save") =>
                       /\ pc'[p] = "idle"
                       /\ result'[p].op = "create"
                       /\ result'[p].kind = "ok"
                       /\ orders'[order[p].id].status = "pending"
                       /\ orders'[order[p].id].totalPrice = products'[i].price * q
                       /\ products'[i].stock = products[i].stock - q
                       /\ products'[i].price = products[i].price

C12_CreateSucceeds == [][C12_CreateStep]_vars

\* C12 witness: a create of 2 units at price 2 from a stock of 2 has returned
\* successfully: one pending order of total 4, stock 0.
C12_Witness ==
    /\ Returned(Client, "create", "ok")
    /\ result[Client].requested = 2
    /\ Len(orders) = 1
    /\ orders[1].status = "pending"
    /\ orders[1].totalPrice = 4
    /\ \A i \in ProductIds : products[i].stock = 0 /\ initStock[i] = 2

\* C13 (SpecCreateLookup): create looks the user up first and the product
\* second.  For a missing user its lookup steps end in NotFound for the user,
\* whether the product exists or not, and never reach the product lookup; the
\* product lookup is entered only from the user lookup of an existing user and
\* for a missing product ends in NotFound for the product.  None of these steps
\* changes the orders or the products.
C13_LookupStep ==
    \A p \in Procs :
        (op[p] = "create" /\ pc'[p] # pc[p]) =>
            LET userExists == users[dto[p].userId].exists
                productExists == products[dto[p].productId].exists
            IN  /\ pc[p] \in {"u_get", "u_query", "u_load", "c_findProduct"} =>
                       orders' = orders /\ products' = products
                /\ (pc[p] = "u_get" /\ ~userExists) => pc'[p] = "u_query"
                /\ pc[p] = "u_query" => pc'[p] = "u_load"
                /\ (pc[p] = "u_load" /\ ~userExists) =>
                       /\ pc'[p] = "idle"
                       /\ result'[p].op = "create"
                       /\ result'[p].kind = "NotFound"
                       /\ result'[p].entity = "User"
                /\ pc'[p] = "c_findProduct" =>
                       pc[p] \in {"u_get", "u_load"} /\ userExists
                /\ (pc[p] = "c_findProduct" /\ ~productExists) =>
                       /\ pc'[p] = "idle"
                       /\ result'[p].op = "create"
                       /\ result'[p].kind = "NotFound"
                       /\ result'[p].entity = "Product"

C13_UserThenProduct == [][C13_LookupStep]_vars

\* C13 witness: of two creates of a removed product, the one for the missing
\* user has failed with NotFound for the user and the one for the existing user
\* with NotFound for the product; no order is persisted.
C13_Witness ==
    /\ \A i \in ProductIds : ~products[i].exists
    /\ \E p, q \in Procs :
          /\ Returned(p, "create", "NotFound") /\ result[p].entity = "User"
          /\ Returned(q, "create", "NotFound") /\ result[q].entity = "Product"
    /\ Len(orders) = 0

\* C14 (SpecSeq): a direct updateStock(productId, d) that runs alone on an
\* existing product with stock s only reads in its first step and in its
\* second persists stock max(0, s + d), leaving the price and the orders
\* alone, and returns successfully; on a product that does not exist it fails
\* in its first step with NotFound and changes nothing.
C14_AdjustStep ==
    \A p \in Procs :
        (op[p] = "updateStock" /\ pc'[p] # pc[p]) =>
            LET i == dto[p].productId
                s == products[i].stock
                d == dto[p].quantity
            IN  /\ orders' = orders
                /\ pc[p] = "us_findOne" =>
                       /\ products' = products
                       /\ IF products[i].exists
                          THEN pc'[p] = "us_save"
                          ELSE /\ pc'[p] = "idle"
                               /\ result'[p].op = "updateStock"
                               /\ result'[p].kind = "NotFound"
                /\ pc[p] = "us_save" =>
                       /\ products[i].exists
                       /\ products'[i] =
                              [products[i] EXCEPT !.stock = IF s + d > 0 THEN s + d ELSE 0]
                       /\ pc'[p] = "idle"
                       /\ result'[p].op = "updateStock"
                       /\ result'[p].kind = "ok"

C14_Adjust == [][C14_AdjustStep]_vars

\* C14 witness: updateStock with delta -1 has returned successfully on a
\* product that was created with stock 0 and never ordered; its stock is 0.
C14_Witness ==
    /\ Returned(Client, "updateStock", "ok")
    /\ result[Client].requested = 0 - 1
    /\ Len(orders) = 0
    /\ \A i \in ProductIds :
          products[i].exists /\ products[i].stock = 0 /\ initStock[i] = 0

\* C15 (SpecOrderSeq): updateStatus(orderId, s) that runs alone on an existing
\* order only reads in its first step, whatever the order's status, and in
\* its second writes status s into that order and nothing else: the other
\* fields of the order, the other orders and the products stay as they are;
\* on an order that does not exist it fails in its first step with NotFound
\* and changes nothing.
C15_UpdateStatusStep ==
    \A p \in Procs :
        (op[p] = "updateStatus" /\ pc'[p] # pc[p]) =>
            LET o == dto[p].orderId
            IN  /\ products' = products
                /\ pc[p] = "s_findOne" =>
                       /\ orders' = orders
                       /\ IF o <= Len(orders)
                          THEN pc'[p] = "s_save"
                          ELSE /\ pc'[p] = "idle"
                               /\ result'[p].op = "updateStatus"
                               /\ result'[p].kind = "NotFound"
                /\ pc[p] = "s_save" =>
                       /\ orders' = [orders EXCEPT ![o] =
                                        [orders[o] EXCEPT !.status = dto[p].status]]
                       /\ pc'[p] = "idle"
                       /\ result'[p].op = "updateStatus"
                       /\ result'[p].kind = "ok"

C15_UpdateStatus == [][C15_UpdateStatusStep]_vars

\* C15 witness: updateStatus has returned successfully and the only order
\* is pending although its quantity is back in the stock (it went from
\* cancelled to pending): 2 units ordered, stock 2 again.
C15_Witness ==
    /\ Returned(Client, "updateStatus", "ok")
    /\ Len(orders) = 1
    /\ orders[1].status = "pending"
    /\ orders[1].quantity = 2
    /\ products[orders[1].productId].stock = 2

\* C16 (SpecCache): get(k) returns a value only from an entry that is present
\* and not past its expiry, and then that entry's value; on an entry with
\* now > expiry it returns null and deletes the entry, so that getStats
\* no longer lists k and counts one key less.
C16_GetStep ==
    \A p \in Procs :
        (pc[p] = "k_get" /\ pc'[p] # "k_get") =>
            LET k == dto[p].key
            IN  /\ pc'[p] = "idle"
                /\ result'[p].op = "get"
                /\ ret'[p] # NoUser =>
                       /\ cache[k].present
                       /\ now <= cache[k].expiry
                       /\ ret'[p] = cache[k].value
                /\ (cache[k].present /\ now > cache[k].expiry) =>
                       /\ ret'[p] = NoUser
                       /\ ~cache'[k].present
                       /\ k \notin getStats(cache').keys
                       /\ getStats(cache').size = getStats(cache).size - 1
                       /\ \A j \in Keys \ {k} : cache'[j] = cache[j]

C16_ExpiredNeverReturned == [][C16_GetStep]_vars

\* C16 witness: a get has found an expired entry and returned null; the other
\* key is still listed by getStats, the key read is not.
C16_Witness ==
    /\ Returned(Client, "get", "expired")
    /\ ret[Client] = NoUser
    /\ getStats(cache).size = 1

\* C17 (SpecCache): cache freshness.  set(k, v, ttl) at time t leaves under k
\* the entry (v, t + ttl) whatever was there before, live or expired.  The
\* entry under k changes only by a set or a delete of k, by a clear, or by
\* a get or has of k that finds it past its expiry.  A get(k) while
\* now <= expiry returns the entry's value, that of the most recent set, and
\* leaves the cache alone; once now > expiry (the TTL has elapsed) it
\* returns null and removes the entry, and has(k) returns false for an entry
\* that is past its expiry or not there, true otherwise.
C17_FreshnessStep ==
    /\ \A k \in Keys :
          cache'[k] # cache[k] =>
              \E p \in Procs :
                  \/ pc[p] \in {"k_set", "k_delete"} /\ dto[p].key = k
                  \/ pc[p] = "k_clear"
                  \/ /\ pc[p] \in {"k_get", "k_has"}
                     /\ dto[p].key = k
                     /\ now > cache[k].expiry
    /\ \A p \in Procs :
          LET k == dto[p].key
              live == cache[k].present /\ now <= cache[k].expiry
          IN  /\ (pc[p] = "k_set" /\ pc'[p] # "k_set") =>
                     cache'[k] = [present |-> TRUE, value |-> dto[p].value,
                                  expiry |-> now + dto[p].ttl]
              /\ (pc[p] = "k_get" /\ pc'[p] # "k_get") =>
                     IF live
                     THEN /\ ret'[p] = cache[k].value
                          /\ result'[p].kind = "hit"
                          /\ cache' = cache
                     ELSE /\ ret'[p] = NoUser
                          /\ result'[p].kind \in {"absent", "expired"}
                          /\ ~cache'[k].present
              /\ (pc[p] = "k_has" /\ pc'[p] # "k_has") =>
                     /\ result'[p].kind = IF live THEN "true" ELSE "false"
                     /\ live => cache' = cache
                     /\ ~live => ~cache'[k].present

C17_Freshness == [][C17_FreshnessStep]_vars

\* C17 witness: at the last second the clock reaches, a get has returned the
\* value of an entry at the very second of its expiry (the entry was set after
\* the clock had started to advance, with the second value a caller stores).
C17_Witness ==
    /\ Returned(Client, "get", "hit")
    /\ now = MaxNow
    /\ \E k \in Keys :
          /\ cache[k].present
          /\ cache[k].expiry = now
          /\ cache[k].value = ret[Client]
          /\ ret[Client].name = MaxName

\* C18 (SpecUsers): findOne(id) is read-through.  When the cache holds a live
\* entry for id it returns that entry's value in its first step, without a
\* repository step, and leaves cache and table alone.  Otherwise it queries
\* the repository: for a missing row it fails with NotFound and the cache has
\* no entry for id; for a row it stores the row under id with expiry
\* now + 3600 and returns it.
C18_FindOneStep ==
    \A p \in Procs :
        (op[p] = "findOne" /\ pc'[p] # pc[p]) =>
            LET id == dto[p].userId
                live == cache[id].present /\ now <= cache[id].expiry
            IN  /\ users' = users
                /\ pc[p] = "u_get" =>
                       IF live
                       THEN /\ pc'[p] = "idle"
                            /\ result'[p].op = "findOne"
                            /\ result'[p].kind = "ok"
                            /\ ret'[p] = cache[id].value
                            /\ cache' = cache
                       ELSE /\ pc'[p] = "u_query"
                            /\ ~cache'[id].present
                /\ pc[p] = "u_query" =>
                       /\ pc'[p] = "u_load"
                       /\ cache' = cache
                /\ pc[p] = "u_load" =>
                       /\ pc'[p] = "idle"
                       /\ result'[p].op = "findOne"
                       /\ IF users[id].exists
                          THEN /\ result'[p].kind = "ok"
                               /\ ret'[p] = users[id]
                               /\ cache' = [cache EXCEPT ![id] =
                                               [present |-> TRUE, value |-> users[id],
                                                expiry |-> now + 3600]]
                          ELSE /\ result'[p].kind = "NotFound"
                               /\ ret'[p] = NoUser
                               /\ ~cache'[id].present
                               /\ cache' = cache

C19_MutationStep ==
    \A p \in Procs :
        (pc'[p] # pc[p]) =>
            LET id == dto[p].userId
            IN  /\ (op[p] \in {"update_user", "remove_user"} /\ pc[p] # "u_save") =>
                       /\ users' = users
                       /\ ~users[id].exists =>
                              (pc'[p] = "idle" => result'[p].kind = "NotFound")
                /\ pc[p] = "u_save" =>
                       /\ users[id].exists
                       /\ users' = [users EXCEPT ![id] =
                                       IF op[p] = "remove_user"
                                       THEN [users[id] EXCEPT !.isDeleted = TRUE]
                                       ELSE [users[id] EXCEPT !.name = dto[p].name]]
                       /\ ~cache'[id].present
                       /\ pc'[p] = "idle"
                       /\ result'[p].op = op[p]
                       /\ result'[p].kind = "ok"
                       /\ op[p] = "update_user" => ret'[p] = users'[id]
                /\ (op[p] = "findOne" /\ pc'[p] = "idle" /\ users[id].exists) =>
                       /\ result'[p].kind = "ok"
                       /\ ret'[p] = users[id]

\* between calls the cache holds nothing but persisted rows, and right after
\* an update or a remove it holds no entry of a persisted user at all
C19_Invalidated ==
    /\ AllIdle =>
           \A id \in Keys : cache[id].present => cache[id].value = users[id]
    /\ \A p \in Procs :
           (Returned(p, "update_user", "ok") \/ Returned(p, "remove_user", "ok")) =>
               \A id \in UserIds : ~cache[id].present

C19_MutationsInvalidate == [][C19_MutationStep]_vars /\ []C19_Invalidated

\* C19 witness: a findOne has returned the user with the second profile value
\* and isDeleted set, exactly as persisted (an update and a remove went
\* before), and the cache holds that row again.
C19_Witness ==
    /\ Returned(Client, "findOne", "ok")
    /\ \E u \in UserIds :
          /\ ret[Client] = users[u]
          /\ users[u].name = MaxName
          /\ users[u].isDeleted
          /\ cache[u].present
          /\ cache[u].value = users[u]

\* C20 (SpecOrderSeq): the product lookups of the order logic read the
\* persisted row: create decides on the stock persisted at its lookup
\* (refusing with that stock as `available`, or going on to save), updateStock
\* starts from the persisted row, and no step of an order or stock call puts
\* anything into the cache, which holds only the users' entries.  So after a
\* successful create or cancel the next lookup sees the adjusted stock.
C20_LookupStep ==
    /\ cache' = cache
    /\ \A p \in Procs :
          (pc'[p] # pc[p]) =>
              LET i == dto[p].productId
                  q == dto[p].quantity
              IN  /\ (pc[p] = "c_findProduct" /\ products[i].exists) =>
                         IF products[i].stock < q
                         THEN /\ pc'[p] = "idle"
                              /\ result'[p].kind = "InsufficientStock"
                              /\ result'[p].available = products[i].stock
                         ELSE /\ pc'[p] = "c_save"
                              /\ order'[p].totalPrice = products[i].price * q
                  /\ (pc[p] = "us_findOne" /\ pc'[p] = "us_save") =>
                         product'[p] = products[updateStockId(p)]

C20_NoStaleProduct == [][C20_LookupStep]_vars /\ [](cache = CacheAfterCreate)

\* C20 witness: after a create took its quantity from the stock, a second
\* create has been refused with exactly the stock that was left as `available`.
C20_Witness ==
    /\ Returned(Client, "create", "InsufficientStock")
    /\ Len(orders) = 1
    /\ orders[1].status = "pending"
    /\ LET i == orders[1].productId
       IN  /\ products[i].stock = initStock[i] - orders[1].quantity
           /\ result[Client].available = products[i].stock
           /\ result[Client].available < initStock[i]
           /\ result[Client].available > 0

\* C21 as stated (SpecUsers): a findOne(id) for an id that is neither in the
\* cache nor in the table returns null instead of raising an error.
C21_ReturnsNullStep ==
    \A p \in Procs :
        (/\ op[p] = "findOne"
         /\ pc[p] = "u_load"
         /\ pc'[p] # "u_load"
         /\ ~users[dto[p].userId].exists)
        => /\ result'[p].kind = "ok"
           /\ ret'[p] = NoUser

C21_RaisesNotFoundStep ==
    \A p \in Procs :
        (/\ op[p] = "findOne"
         /\ pc'[p] = "idle"
         /\ pc[p] # "idle"
         /\ ~users[dto[p].userId].exists)
        => /\ pc[p] = "u_load"
           /\ result'[p].op = "findOne"
           /\ result'[p].kind = "NotFound"
           /\ result'[p].entity = "User"
           /\ ret'[p] = NoUser
           /\ users' = users
           /\ cache' = cache
           /\ ~cache[dto[p].userId].present

C22_HasAsGet ==
    \A k \in Keys :
        /\ cacheHas(cache, k, now) <=> (cacheGetOutcome(cache, k, now) = Hit)
        /\ (cache[k].present /\ cache[k].value # NoUser)
              => (cacheHas(cache, k, now) <=> (cacheGet(cache, k, now) # NoUser))
        /\ cacheHasEvict(cache, k, now) = cacheEvict(cache, k, now)
        /\ (cache[k].present /\ Expired(cache[k], now))
              => cacheHasEvict(cache, k, now) = [cache EXCEPT ![k] = NoEntry]

\* C22: a has step returns the boolean and leaves the Map as stated
C22_HasStepOk ==
    \A p \in Procs :
        (pc[p] = "k_has" /\ pc'[p] = "idle") =>
            /\ result'[p].kind = (IF cacheGetOutcome(cache, dto[p].key, now) = Hit
                                  THEN "true" ELSE "false")
            /\ cache' = cacheEvict(cache, dto[p].key, now)

C23_EntriesWhole ==
    \A k \in Keys :
        IF cache[k].present
        THEN cache[k].value \in CacheValues /\ cache[k].expiry \in 1..(MaxRaceNow + MaxTtl)
        ELSE cache[k] = NoEntry

\* what one call makes of the Map and returns when it runs alone
C23_Sequential(p) ==
    LET k == dto[p].key
        live == cache[k].present /\ ~(now > cache[k].expiry)
        kept == IF cache[k].present /\ now > cache[k].expiry
                THEN [cache EXCEPT ![k] = NoEntry] ELSE cache
    IN  CASE op[p] = "set" ->
               /\ cache' = [cache EXCEPT ![k] = [present |-> TRUE, value |-> dto[p].value,
                                                 expiry |-> now + dto[p].ttl]]
               /\ result'[p].kind = "ok"
          [] op[p] = "delete" ->
               /\ cache' = [cache EXCEPT ![k] = NoEntry]
               /\ result'[p].kind = "ok"
          [] op[p] = "clear" ->
               /\ cache' = [j \in Keys |-> NoEntry]
               /\ result'[p].kind = "ok"
          [] op[p] = "get" ->
               /\ cache' = kept
               /\ ret'[p] = (IF live THEN cache[k].value ELSE NoUser)
               /\ (result'[p].kind = "hit") <=> live
          [] op[p] = "has" ->
               /\ cache' = kept
               /\ (result'[p].kind = "true") <=> live
          [] OTHER -> FALSE

C23_AtomicStep ==
    \A p \in Procs :
        /\ (pc[p] # "idle" /\ pc'[p] = "idle") =>
              /\ C23_Sequential(p)
              /\ \A q \in Procs \ {p} :
                    /\ pc'[q] = pc[q] /\ dto'[q] = dto[q]
                    /\ result'[q] = result[q] /\ ret'[q] = ret[q]
        /\ (pc[p] = "idle" /\ pc'[p] # "idle") => cache' = cache

\* C23: with several callers at once, every CacheService call takes effect in
\* one step: the step that completes a call changes the Map and returns
\* exactly as the call would running alone on the Map it finds (a set
\* overwrites whatever an earlier completed call left: last write wins),
\* touches no other caller's call or return value, and a call not yet run
\* changes nothing; so the Map always holds whole entries and every
\* interleaving is the sequence of the calls in their order of completion.
C23_Atomic == [][C23_AtomicStep]_vars /\ []C23_EntriesWhole

\* a set on a key completed while another caller's set of a different value
\* on the same key was pending
C23_Witness ==
    /\ Returned(2, "set", "ok")
    /\ pc[1] = "k_set"
    /\ cache[dto[1].key].present
    /\ cache[dto[1].key].value # dto[1].value

\* ---- C24 ----

C24_LazyOnlyStep ==
    \A k \in Keys :
        (~cache[k].present /\ cache'[k].present) =>
            \E p \in Procs : pc[p] = "u_load" /\ dto[p].userId = k

\* C24: a key gets an entry in the cache only in the step of a lookup
\* (findOne) that missed the cache and loaded the entity from the repository,
\* never in a step of a write operation.
C24_LazyOnly == [][C24_LazyOnlyStep]_vars

\* ---- C25 ----

C25_Cancellable == {"pending", "confirmed", "shipped"}

C25_CancelStep ==
    \A p \in Procs :
        op[p] = "cancel" =>
            /\ (/\ pc[p] = "x_findOne" /\ pc'[p] # "x_findOne"
                /\ dto[p].orderId <= Len(orders)
                /\ orders[dto[p].orderId].status \in C25_Cancellable)
               => /\ pc'[p] = "us_findOne"
                  /\ orders' = orders /\ products' = products
            /\ (pc[p] = "us_findOne" /\ pc'[p] # "us_findOne" /\ products[order[p].productId].exists)
               => /\ pc'[p] = "us_save"
                  /\ orders' = orders /\ products' = products
            /\ (pc[p] = "us_save" /\ pc'[p] # "us_save")
               => /\ pc'[p] = "x_save"
                  /\ products' = [products EXCEPT ![order[p].productId].stock =
                                      products[order[p].productId].stock + order[p].quantity]
                  /\ orders' = orders
                  /\ orders[order[p].id].status \in C25_Cancellable
            /\ (pc[p] = "x_save" /\ pc'[p] # "x_save")
               => /\ pc'[p] = "idle"
                  /\ result'[p].op = "cancel" /\ result'[p].kind = "ok"
                  /\ orders' = [orders EXCEPT ![order[p].id].status = "cancelled"]
                  /\ products' = products

\* C25: a cancel that runs alone on an order whose status is pending,
\* confirmed or shipped succeeds: it first adds exactly the order's quantity
\* to the stock of the order's product, the order still uncancelled, then
\* writes status cancelled to that order and returns; no other order, no other
\* field of the order and nothing else of the products changes.
C25_Cancel == [][C25_CancelStep]_vars

\* a cancel of a shipped order has restored the stock and is about to write
\* the status, while another order exists
C25_Witness ==
    /\ op[Client] = "cancel"
    /\ pc[Client] = "x_save"
    /\ order[Client].status = "shipped"
    /\ orders[order[Client].id].status = "shipped"
    /\ Len(orders) = MaxOrders
    /\ products[order[Client].productId].stock > 0

\* ---- C26 ----

\* C26: once a findOne(id) and a concurrent update(id, patch) or remove(id)
\* have both completed, whatever their interleaving, the cache holds no entry
\* for id or an entry whose value is the entity now persisted.
C26_Coherent ==
    AllIdle =>
        \A id \in UserIds : cache[id].present => cache[id].value = users[id]

\* ---- C27 ----

\* C27: while the stock changes through create, cancel and updateStatus
\* alone, no product's stock ever exceeds the stock it started with.
C27_NeverInflated ==
    \A i \in ProductIds : products[i].exists => products[i].stock <= initStock[i]

\* ---- C28 ----

\* sum of the quantities of the first n orders that are for product i and not cancelled
RECURSIVE C28_Held(_, _)
C28_Held(i, n) ==
    IF n = 0
    THEN 0
    ELSE C28_Held(i, n - 1) +
         (IF orders[n].productId = i /\ orders[n].status # "cancelled"
          THEN orders[n].quantity ELSE 0)

\* C28: when create and cancel calls run one after the other (and nothing
\* else changes stock or statuses), after every call each product's stock
\* plus the quantities of its orders that are not cancelled equals the stock
\* the product started with.
C28_Conservation ==
    Idle(Client) =>
        \A i \in ProductIds :
            products[i].stock + C28_Held(i, Len(orders)) = initStock[i]

\* a create has returned with one order cancelled before it and one order holding stock
C28_Witness ==
    /\ Returned(Client, "create", "ok")
    /\ Len(orders) = 2
    /\ orders[1].status = "cancelled"
    /\ orders[2].status = "pending"
    /\ products[orders[2].productId].stock < initStock[orders[2].productId]

\* ---- C29 ----

\* C29: a cancel that ended in an error has left the orders' statuses and the
\* products' stock as they were before the call: with calls running one after
\* the other, each product's stock and the quantities of its orders not
\* cancelled still add up to the stock the product started with, and the
\* stock is not above it (so a retried cancel restores nothing twice).
C29_AllOrNothing ==
    (Idle(Client) /\ result[Client].op = "cancel" /\ result[Client].kind # "ok") =>
        \A i \in ProductIds :
            /\ products[i].stock + C28_Held(i, Len(orders)) = initStock[i]
            /\ products[i].stock <= initStock[i]

\* ---- C30 ----

C30_FindOneStep ==
    \A p \in Procs :
        (op[p] = "findOne" /\ pc[p] # "idle" /\ pc'[p] = "idle" /\ result'[p].kind = "ok")
            => ret'[p] = users[dto[p].userId]

\* C30: whether the save of an update or remove succeeded or failed, a findOne
\* called afterwards returns the entity as persisted, never a patch or an
\* isDeleted flag that was not saved; and between calls a cache entry holds
\* the persisted entity.
C30_OnlyPersisted ==
    /\ [][C30_FindOneStep]_vars
    /\ [](AllIdle => \A id \in UserIds : cache[id].present => cache[id].value = users[id])

====
